---- MODULE Spec2Model ----
(***************************************************************************)
(* Model of mantime/readers.py: TempEval3FileReader.parse and the private  *)
(* annotation extractor TempEval3FileReader.__get_annotations.             *)
(*                                                                         *)
(* Markup is a sequence of tokens: a character, an opening tag or a        *)
(* closing tag.  A string is a sequence of one-character strings.  The     *)
(* value None of an element's text or tail is the empty sequence: the XML  *)
(* parser never stores an empty string, so "no text" and None coincide.    *)
(* The modelled sources are shorter than one read of iterparse (16384      *)
(* bytes), so an element's text and tail are complete when its start       *)
(* event is delivered.                                                     *)
(***************************************************************************)
EXTENDS Integers, Sequences, FiniteSets, TLC

VARIABLES file, tags_to_spot, pc, xml_document, text_node, text, xml,
          l_strip_chars, document, source, start_offset, annotations,
          pos, stack, outcome, error, returned

vars == <<file, tags_to_spot, pc, xml_document, text_node, text, xml,
          l_strip_chars, document, source, start_offset, annotations,
          pos, stack, outcome, error, returned>>

parse_vars == <<xml_document, text_node, text, xml, l_strip_chars>>

extractor_vars == <<source, start_offset, annotations, pos, stack>>

(* ------------------------------ bounds --------------------------------- *)

MaxLen == 8

MaxFileLen == 5

MaxRun == 2

MaxElems == 3

MaxTail == 1

MaxDct == 2

(* ------------------------------ tokens --------------------------------- *)

Chars == {" ", "x"}

IsSpace(c) == c = " "

InnerTags == {"TIMEX3", "B"}

RootTags == {"TEXT", "EVENT"}

DctValues == {"d1", "d2"}

NoValue == "NoValue"

None == <<>>

Chr(c) == [k |-> "chr", v |-> c]

Open(t) == [k |-> "open", v |-> t]

Close(t) == [k |-> "close", v |-> t]

IsTag(tok) == tok.k # "chr"

Max(a, b) == IF a >= b THEN a ELSE b

Min(a, b) == IF a <= b THEN a ELSE b

Last(s) == s[Len(s)]

Front(s) == SubSeq(s, 1, Len(s) - 1)

RECURSIVE Strings(_)
Strings(n) ==
    IF n = 0 THEN {<<>>}
    ELSE {<<>>} \cup {<<c>> \o s : c \in Chars, s \in Strings(n - 1)}

ToTokens(str) == [i \in 1..Len(str) |-> Chr(str[i])]

(* Well-formed element content of exactly n tokens over the characters cs. *)
RECURSIVE Content(_, _)
Content(n, cs) ==
    IF n = 0 THEN {<<>>}
    ELSE {<<Chr(c)>> \o s : c \in cs, s \in Content(n - 1, cs)}
         \cup
         (IF n < 2 THEN {}
          ELSE UNION {UNION {{<<Open(t)>> \o a \o <<Close(t)>> \o b :
                                  a \in Content(j, cs),
                                  b \in Content(n - 2 - j, cs)} :
                             j \in 0..(n - 2)} : t \in InnerTags})

(* No run of characters longer than MaxRun, at most MaxElems elements. *)
RECURSIVE Bounded(_, _, _, _)
Bounded(c, i, run, elems) ==
    IF i > Len(c) THEN TRUE
    ELSE IF c[i].k = "chr" THEN run < MaxRun /\ Bounded(c, i + 1, run + 1, elems)
    ELSE IF c[i].k = "open" THEN elems < MaxElems /\ Bounded(c, i + 1, 0, elems + 1)
    ELSE Bounded(c, i + 1, 0, elems)

ContentUpTo(n, cs) ==
    {c \in UNION {Content(j, cs) : j \in 0..n} : Bounded(c, 1, 0, 0)}

Blank(str) == \A i \in 1..Len(str) : IsSpace(str[i])

(* One element with the given root tags and at most n tokens of content,   *)
(* followed by one of the given tails.                                     *)
Markups(roots, n, cs, tails) ==
    {<<Open(r)>> \o c \o <<Close(r)>> \o ToTokens(t) :
         r \in roots, c \in ContentUpTo(n, cs), t \in tails}

MalformedRegions == {<<Open("TEXT")>>, <<Open("TEXT"), Chr("x"), Close("B")>>}

RECURSIVE SeqsUpTo(_, _)
SeqsUpTo(S, n) ==
    IF n = 0 THEN {<<>>}
    ELSE {<<>>} \cup {<<x>> \o s : x \in S, s \in SeqsUpTo(S, n - 1)}

(* What follows the TEXT node in the file: white space, or other text. *)
FileTails == {t \in Strings(MaxTail) : Blank(t)} \cup {<<"x">>}

(* An input file: the reference-time tags in document order (each by its   *)
(* value attribute, NoValue when it has none) and the tokens of the text   *)
(* region inside the root (empty when the file has no TEXT node).          *)
Files ==
    [dct_tags : SeqsUpTo(DctValues \cup {NoValue}, MaxDct),
     region : Markups({"TEXT"}, MaxFileLen, Chars, FileTails) \cup {<<>>} \cup MalformedRegions]

(* ------------------- the XML library (xml.etree) ----------------------- *)

NewElement(t) == [tag |-> t, text |-> None, children |-> <<>>, tail |-> None]

(* Balanced tags: what the expat parser accepts as nesting. *)
RECURSIVE Balanced(_, _, _)
Balanced(toks, i, open) ==
    IF i > Len(toks) THEN open = <<>>
    ELSE IF toks[i].k = "open" THEN Balanced(toks, i + 1, Append(open, toks[i].v))
    ELSE IF toks[i].k = "close"
         THEN /\ open # <<>>
              /\ Last(open) = toks[i].v
              /\ Balanced(toks, i + 1, Front(open))
    ELSE Balanced(toks, i + 1, open)

(* TreeBuilder: start pushes a new element, data goes to the text of the   *)
(* open element or to the tail of the element closed last, end pops the    *)
(* element and appends it to its parent.  st[1] stands for the enclosing   *)
(* root of the file; the result is the list of its children.               *)
RECURSIVE TreeBuilder(_, _, _, _)
TreeBuilder(toks, i, st, in_tail) ==
    IF i > Len(toks) THEN st[1].children
    ELSE LET tok == toks[i]
             top == Last(st)
         IN  IF tok.k = "open"
             THEN TreeBuilder(toks, i + 1, Append(st, NewElement(tok.v)), FALSE)
             ELSE IF tok.k = "close"
             THEN LET parent == st[Len(st) - 1]
                      grown == [parent EXCEPT !.children = Append(@, top)]
                  IN  TreeBuilder(toks, i + 1,
                                  [Front(st) EXCEPT ![Len(st) - 1] = grown], TRUE)
             ELSE IF in_tail
             THEN LET n == Len(top.children)
                      kid == [top.children[n] EXCEPT !.tail = Append(@, tok.v)]
                      grown == [top EXCEPT !.children = [@ EXCEPT ![n] = kid]]
                  IN  TreeBuilder(toks, i + 1, [st EXCEPT ![Len(st)] = grown], TRUE)
             ELSE TreeBuilder(toks, i + 1,
                              [st EXCEPT ![Len(st)] =
                                   [top EXCEPT !.text = Append(@, tok.v)]], FALSE)

(* etree.parse: the tree of the file, or a ParseError. *)
etree_parse(f) ==
    IF ~Balanced(f.region, 1, <<>>)
    THEN [err |-> "ParseError", dct_tags |-> <<>>, nodes |-> <<>>]
    ELSE [err |-> "", dct_tags |-> f.dct_tags,
          nodes |-> TreeBuilder(f.region, 1, <<NewElement("TimeML")>>, FALSE)]

(* findall(".//TEXT"): the TEXT elements below the root, in document order. *)
findall_TEXT(doc) == SelectSeq(doc.nodes, LAMBDA e : e.tag = "TEXT")

(* findall(".//TIMEX3[@functionInDocument='CREATION_TIME']") *)
findall_dct(doc) == doc.dct_tags

RECURSIVE tostring(_)
RECURSIVE tostring_all(_, _)
(* etree.tostring(node): the element, its content and its tail. *)
tostring(e) ==
    <<Open(e.tag)>> \o ToTokens(e.text) \o tostring_all(e.children, 1)
        \o <<Close(e.tag)>> \o ToTokens(e.tail)

tostring_all(es, i) ==
    IF i > Len(es) THEN <<>> ELSE tostring(es[i]) \o tostring_all(es, i + 1)

RECURSIVE tostring_text(_)
RECURSIVE tostring_text_all(_, _)
(* etree.tostring(node, method='text'): itertext() followed by the tail. *)
tostring_text(e) == e.text \o tostring_text_all(e.children, 1) \o e.tail

tostring_text_all(es, i) ==
    IF i > Len(es) THEN <<>>
    ELSE tostring_text(es[i]) \o tostring_text_all(es, i + 1)

(* str.lstrip() *)
RECURSIVE lstrip(_)
lstrip(s) ==
    IF s # <<>> /\ IsSpace(s[1]) THEN lstrip(Tail(s)) ELSE s

(* s[a:b] of Python, negative and out-of-range indices included. *)
PySlice(s, a, b) ==
    LET n == Len(s)
        lo == IF a < 0 THEN Max(a + n, 0) ELSE Min(a, n)
        hi == IF b < 0 THEN Max(b + n, 0) ELSE Min(b, n)
    IN  SubSeq(s, lo + 1, hi)

(* The characters that follow position p up to the next tag. *)
RECURSIVE CharRun(_, _)
CharRun(src, p) ==
    IF p + 1 > Len(src) \/ IsTag(src[p + 1]) THEN <<>>
    ELSE <<src[p + 1].v>> \o CharRun(src, p + 1)

(* Position of the first tag at or after p, 0 when there is none. *)
RECURSIVE NextTag(_, _)
NextTag(src, p) ==
    IF p > Len(src) THEN 0
    ELSE IF IsTag(src[p]) THEN p
    ELSE NextTag(src, p + 1)

(* The element iterparse hands out with a start event at position p. The   *)
(* attribute dictionary is identified by the position of the start tag.    *)
StartElement(src, p) ==
    [tag |-> src[p].v, attrib |-> p, text |-> CharRun(src, p), tail |-> None]

(* The element handed out with the end event at position p; o is the       *)
(* position of its start tag.  Character data after the closing tag of the *)
(* document element is not reported, so the root's tail stays None.        *)
EndElement(src, o, p, depth) ==
    [tag |-> src[o].v, attrib |-> o, text |-> CharRun(src, o),
     tail |-> IF depth = 1 THEN None ELSE CharRun(src, p)]

(* Text after the document element that is not white space. *)
JunkAfterRoot(src, p) ==
    \E i \in p..Len(src) : ~IsTag(src[i]) /\ ~IsSpace(src[i].v)

(* ----------------------- TempEval3FileReader --------------------------- *)

Unset == <<>>

(* Document(file_path): the attributes parse assigns are not yet set. *)
Document ==
    [dct |-> Unset, text |-> Unset, annotations |-> Unset,
     stanford_tree |-> Unset, classes |-> Unset]

(* Variant: no correction for the stripped white space. *)
LStripCharsNone(t) == 0

(* Variant: the operands of the subtraction exchanged. *)
LStripCharsReversed(t) == Len(t) - Len(lstrip(t))

(* line 79 *)
LStripChars(t) == Len(lstrip(t)) - Len(t)

(* Variant: a default value when no reference-time tag is found. *)
DctLookupDefault(matches) ==
    IF matches = <<>> THEN [err |-> "", value |-> "d1"]
    ELSE IF matches[1] = NoValue THEN [err |-> "KeyError", value |-> NoValue]
    ELSE [err |-> "", value |-> matches[1]]

(* Variant: the last match instead of the first. *)
DctLookupLast(matches) ==
    IF matches = <<>> THEN [err |-> "IndexError", value |-> NoValue]
    ELSE IF Last(matches) = NoValue THEN [err |-> "KeyError", value |-> NoValue]
    ELSE [err |-> "", value |-> Last(matches)]

(* line 81: xml_document.findall(xpath_dct)[0].attrib['value'] *)
DctLookup(matches) ==
    IF matches = <<>> THEN [err |-> "IndexError", value |-> NoValue]
    ELSE IF matches[1] = NoValue THEN [err |-> "KeyError", value |-> NoValue]
    ELSE [err |-> "", value |-> matches[1]]

(* Variant: the end of the span is the length of the text alone. *)
OnStartEndIsLength(anns, offset, element, tags) ==
    IF element.text = None
    THEN [err |-> "TypeError", annotations |-> anns, start_offset |-> offset]
    ELSE [err |-> "",
          annotations |->
              IF element.tag \in tags
              THEN Append(anns, <<element.tag, element.attrib,
                                  <<offset, Len(element.text)>>>>)
              ELSE anns,
          start_offset |-> offset + Len(element.text)]

(* Variant: a new span is put in front of the list. *)
OnStartPrepend(anns, offset, element, tags) ==
    IF element.text = None
    THEN [err |-> "TypeError", annotations |-> anns, start_offset |-> offset]
    ELSE [err |-> "",
          annotations |->
              IF element.tag \in tags
              THEN <<<<element.tag, element.attrib,
                       <<offset, offset + Len(element.text)>>>>>> \o anns
              ELSE anns,
          start_offset |-> offset + Len(element.text)]

(* Variant: the cursor advances only for the tags of interest. *)
OnStartSpottedOnly(anns, offset, element, tags) ==
    IF element.text = None
    THEN [err |-> "TypeError", annotations |-> anns, start_offset |-> offset]
    ELSE IF element.tag \in tags
    THEN [err |-> "",
          annotations |-> Append(anns, <<element.tag, element.attrib,
                                         <<offset, offset + Len(element.text)>>>>),
          start_offset |-> offset + Len(element.text)]
    ELSE [err |-> "", annotations |-> anns, start_offset |-> offset]

(* lines 101-106: the start event.  len(None) raises TypeError. *)
OnStart(anns, offset, element, tags) ==
    IF element.text = None
    THEN [err |-> "TypeError", annotations |-> anns, start_offset |-> offset]
    ELSE [err |-> "",
          annotations |->
              IF element.tag \in tags
              THEN Append(anns, <<element.tag, element.attrib,
                                  <<offset, offset + Len(element.text)>>>>)
              ELSE anns,
          start_offset |-> offset + Len(element.text)]

(* Variant: the tail of a closed element is not counted. *)
OnEndNoTail(offset, element) == offset

(* lines 107-109: the end event. *)
OnEnd(offset, element) ==
    IF element.text # None /\ element.tail # None
    THEN offset + Len(element.tail)
    ELSE offset

(* Variant: a handler that returns the Document as far as it was filled. *)
PropagatePartial(err) ==
    /\ outcome' = "returned"
    /\ error' = ""
    /\ returned' = <<document>>
    /\ pc' = "done"

(* parse has no handler: an exception ends the call and reaches the caller. *)
Propagate(err) ==
    /\ outcome' = "raised"
    /\ error' = err
    /\ returned' = Unset
    /\ pc' = "done"

Running == UNCHANGED <<outcome, error, returned>>

(* line 71-72 *)
ParseFile ==
    /\ pc = "parse_file"
    /\ LET tree == etree_parse(file)
       IN  IF tree.err # ""
           THEN Propagate(tree.err) /\ UNCHANGED <<xml_document, document>>
           ELSE /\ xml_document' = tree
                /\ document' = Document
                /\ pc' = "find_text"
                /\ Running
    /\ UNCHANGED <<file, tags_to_spot, text_node, text, xml, l_strip_chars>>
    /\ UNCHANGED extractor_vars

(* line 74 *)
FindTextNode ==
    /\ pc = "find_text"
    /\ LET found == findall_TEXT(xml_document)
       IN  IF found = <<>>
           THEN Propagate("IndexError") /\ UNCHANGED text_node
           ELSE /\ text_node' = <<found[1]>>
                /\ pc' = "serialize"
                /\ Running
    /\ UNCHANGED <<file, tags_to_spot, xml_document, text, xml, l_strip_chars,
                   document>>
    /\ UNCHANGED extractor_vars

(* lines 75-79 *)
Serialize ==
    /\ pc = "serialize"
    /\ text' = tostring_text(text_node[1])
    /\ xml' = tostring(text_node[1])
    /\ l_strip_chars' = LStripChars(text')
    /\ pc' = "set_dct"
    /\ Running
    /\ UNCHANGED <<file, tags_to_spot, xml_document, text_node, document>>
    /\ UNCHANGED extractor_vars

(* line 81 *)
SetDct ==
    /\ pc = "set_dct"
    /\ LET r == DctLookup(findall_dct(xml_document))
       IN  IF r.err # ""
           THEN Propagate(r.err) /\ UNCHANGED document
           ELSE /\ document' = [document EXCEPT !.dct = <<r.value>>]
                /\ pc' = "set_text"
                /\ Running
    /\ UNCHANGED <<file, tags_to_spot>>
    /\ UNCHANGED parse_vars
    /\ UNCHANGED extractor_vars

(* line 82 *)
SetText ==
    /\ pc = "set_text"
    /\ document' = [document EXCEPT !.text = <<text>>]
    /\ pc' = "call_extractor"
    /\ Running
    /\ UNCHANGED <<file, tags_to_spot>>
    /\ UNCHANGED parse_vars
    /\ UNCHANGED extractor_vars

(* line 83 (the call), lines 88, 98-100 *)
CallExtractor ==
    /\ pc = "call_extractor"
    /\ source' = xml
    /\ start_offset' = l_strip_chars
    /\ annotations' = <<>>
    /\ pos' = 1
    /\ stack' = <<>>
    /\ pc' = "iter"
    /\ Running
    /\ UNCHANGED <<file, tags_to_spot, document>>
    /\ UNCHANGED parse_vars

(* lines 101-106 *)
StartEvent ==
    /\ pc = "iter"
    /\ LET p == NextTag(source, pos)
       IN  /\ p # 0
           /\ source[p].k = "open"
           /\ LET r == OnStart(annotations, start_offset,
                               StartElement(source, p), tags_to_spot)
              IN  IF r.err # ""
                  THEN /\ Propagate(r.err)
                       /\ UNCHANGED <<start_offset, annotations, pos, stack>>
                  ELSE /\ annotations' = r.annotations
                       /\ start_offset' = r.start_offset
                       /\ stack' = Append(stack, p)
                       /\ pos' = p + 1
                       /\ pc' = "iter"
                       /\ Running
    /\ UNCHANGED <<file, tags_to_spot, document, source>>
    /\ UNCHANGED parse_vars

(* lines 107-109 *)
EndEvent ==
    /\ pc = "iter"
    /\ LET p == NextTag(source, pos)
       IN  /\ p # 0
           /\ source[p].k = "close"
           /\ start_offset' =
                  OnEnd(start_offset,
                        EndElement(source, Last(stack), p, Len(stack)))
           /\ stack' = Front(stack)
           /\ pos' = p + 1
    /\ pc' = "iter"
    /\ Running
    /\ UNCHANGED <<file, tags_to_spot, document, source, annotations>>
    /\ UNCHANGED parse_vars

(* line 99 (end of the stream), line 110 and the assignment of line 83 *)
ExtractorReturn ==
    /\ pc = "iter"
    /\ NextTag(source, pos) = 0
    /\ IF JunkAfterRoot(source, pos)
       THEN Propagate("ParseError") /\ UNCHANGED document
       ELSE /\ document' = [document EXCEPT !.annotations = <<annotations>>]
            /\ pc' = "raw_parse"
            /\ Running
    /\ UNCHANGED <<file, tags_to_spot>>
    /\ UNCHANGED parse_vars
    /\ UNCHANGED extractor_vars

(* line 84: the external parser answers or fails. *)
RawParse ==
    /\ pc = "raw_parse"
    /\ \E ok \in BOOLEAN :
          IF ok
          THEN /\ document' = [document EXCEPT !.stanford_tree = <<"tree">>]
               /\ pc' = "push_classes"
               /\ Running
          ELSE Propagate("CoreNLPError") /\ UNCHANGED document
    /\ UNCHANGED <<file, tags_to_spot>>
    /\ UNCHANGED parse_vars
    /\ UNCHANGED extractor_vars

(* line 85: Document.push_classes, defined in another module. *)
PushClasses ==
    /\ pc = "push_classes"
    /\ \E ok \in BOOLEAN :
          IF ok
          THEN /\ document' = [document EXCEPT !.classes = <<"classes">>]
               /\ pc' = "return"
               /\ Running
          ELSE Propagate("PushClassesError") /\ UNCHANGED document
    /\ UNCHANGED <<file, tags_to_spot>>
    /\ UNCHANGED parse_vars
    /\ UNCHANGED extractor_vars

(* line 86 *)
Return ==
    /\ pc = "return"
    /\ outcome' = "returned"
    /\ returned' = <<document>>
    /\ error' = ""
    /\ pc' = "done"
    /\ UNCHANGED <<file, tags_to_spot, document>>
    /\ UNCHANGED parse_vars
    /\ UNCHANGED extractor_vars

(* line 62 *)
TagsToSpot == {"TIMEX3", "EVENT", "SIGNAL"}

NoLocals ==
    /\ xml_document = [err |-> "", dct_tags |-> <<>>, nodes |-> <<>>]
    /\ text_node = <<>>
    /\ document = Document
    /\ source = <<>>
    /\ start_offset = 0
    /\ annotations = <<>>
    /\ pos = 1
    /\ stack = <<>>
    /\ outcome = "running"
    /\ error = ""
    /\ returned = Unset

(* A constructed reader at the entry of parse(file_path). *)
Init ==
    /\ file \in Files
    /\ tags_to_spot = TagsToSpot
    /\ pc = "parse_file"
    /\ text = <<>>
    /\ xml = <<>>
    /\ l_strip_chars = 0
    /\ NoLocals

Next ==
    \/ ParseFile
    \/ FindTextNode
    \/ Serialize
    \/ SetDct
    \/ SetText
    \/ CallExtractor
    \/ StartEvent
    \/ EndEvent
    \/ ExtractorReturn
    \/ RawParse
    \/ PushClasses
    \/ Return

Spec == Init /\ [][Next]_vars

(* The extractor on its own: __get_annotations(source, start_offset) on    *)
(* a well-formed markup and a starting offset.                             *)
StartOffsets == {-1, 0}

ExtractChars == {"x"}

InitExtract ==
    /\ file = [dct_tags |-> <<>>, region |-> <<>>]
    /\ tags_to_spot = TagsToSpot
    /\ pc = "call_extractor"
    /\ xml \in Markups(RootTags, MaxLen, ExtractChars,
                     {t \in Strings(MaxTail) : Blank(t)})
    /\ text = <<>>
    /\ l_strip_chars \in StartOffsets
    /\ NoLocals

NextExtract ==
    \/ CallExtractor
    \/ StartEvent
    \/ EndEvent
    \/ ExtractorReturn

SpecExtract == InitExtract /\ [][NextExtract]_vars

(* ------------------------ auxiliary definitions ------------------------ *)

(* The markup with all tags removed. *)
PlainText(src) ==
    LET cs == SelectSeq(src, LAMBDA tok : ~IsTag(tok))
    IN  [i \in 1..Len(cs) |-> cs[i].v]

RECURSIVE LeadingWhitespace(_)
LeadingWhitespace(s) ==
    IF s = <<>> \/ ~IsSpace(Head(s)) THEN 0 ELSE 1 + LeadingWhitespace(Tail(s))

OpenPositions(src) == {p \in 1..Len(src) : src[p].k = "open"}

ClosePositions(src) == {p \in 1..Len(src) : src[p].k = "close"}

(* The closing tag of the document element is the last tag of the markup. *)
RootClose(src) == CHOOSE p \in ClosePositions(src) : NextTag(src, p + 1) = 0

AllHaveText(src) == \A p \in OpenPositions(src) : CharRun(src, p) # <<>>

(* Every tag of interest wraps exactly its own non-empty text. *)
OwnTextOnly(src, tags) ==
    \A p \in OpenPositions(src) :
        src[p].v \in tags =>
            /\ CharRun(src, p) # <<>>
            /\ src[p + Len(CharRun(src, p)) + 1].k = "close"

Span(a) == a[3]

OwnText(src, a) == CharRun(src, a[2])

(* The plain text, each character named by its position in the markup. *)
RECURSIVE PlainPositions(_, _)
PlainPositions(src, i) ==
    IF i > Len(src) THEN <<>>
    ELSE IF IsTag(src[i]) THEN PlainPositions(src, i + 1)
    ELSE <<i>> \o PlainPositions(src, i + 1)

(* The characters of the direct text of the element of annotation a. *)
OwnPositions(src, a) == [i \in 1..Len(OwnText(src, a)) |-> a[2] + i]

SpansOf(anns, t) ==
    LET sel == SelectSeq(anns, LAMBDA a : a[1] = t)
    IN  [i \in 1..Len(sel) |-> Span(sel[i])]

(* Lengths of the direct texts of the elements opened before position q   *)
(* plus the tails of the elements closed before q.                        *)
RECURSIVE Consumed(_, _)
Consumed(src, q) ==
    IF q <= 1 THEN 0
    ELSE LET p == q - 1
         IN  Consumed(src, p) +
             (IF src[p].k = "open" THEN Len(CharRun(src, p))
              ELSE IF src[p].k = "close" /\ p # RootClose(src)
                   THEN Len(CharRun(src, p))
              ELSE 0)

(* The start tags of interest before position q, in document order. *)
RECURSIVE SpottedBefore(_, _, _)
SpottedBefore(src, q, tags) ==
    IF q <= 1 THEN <<>>
    ELSE LET p == q - 1
         IN  IF src[p].k = "open" /\ src[p].v \in tags
             THEN Append(SpottedBefore(src, p, tags), p)
             ELSE SpottedBefore(src, p, tags)

(* The whole loop of lines 99-110 as one function of its arguments. *)
RECURSIVE Extract(_, _, _, _, _, _)
Extract(src, q, anns, offset, stk, tags) ==
    LET p == NextTag(src, q)
    IN  IF p = 0 THEN [err |-> "", annotations |-> anns]
        ELSE IF src[p].k = "open"
        THEN LET r == OnStart(anns, offset, StartElement(src, p), tags)
             IN  IF r.err # "" THEN [err |-> r.err, annotations |-> <<>>]
                 ELSE Extract(src, p + 1, r.annotations, r.start_offset,
                              Append(stk, p), tags)
        ELSE Extract(src, p + 1, anns,
                     OnEnd(offset, EndElement(src, Last(stk), p, Len(stk))),
                     Front(stk), tags)

AllTags == RootTags \cup InnerTags \cup TagsToSpot

InLoop == pc = "iter"

Extracted == pc = "raw_parse"

(* All events are processed and nothing but white space follows the root. *)
AfterLastEvent ==
    /\ pc \in {"iter", "raw_parse"}
    /\ pos > 1
    /\ NextTag(source, pos) = 0
    /\ ~JunkAfterRoot(source, pos)

(* ------------------------------- claims -------------------------------- *)

(* C1: offset correctness.  With start_offset 0 and a markup in which every *)
(* tag of interest wraps exactly its own non-empty text, every returned     *)
(* span (start, end) satisfies plain_text[start:end] = the element's own    *)
(* direct text, plain_text being the markup with all tags removed: the      *)
(* slice holds the very characters of the element's direct text.            *)
OffsetCorrectness ==
    (Extracted /\ l_strip_chars = 0 /\ OwnTextOnly(source, tags_to_spot)) =>
        \A i \in 1..Len(document.annotations[1]) :
            LET a == document.annotations[1][i]
            IN  /\ PySlice(PlainText(source), Span(a)[1], Span(a)[2])
                       = OwnText(source, a)
                /\ PySlice(PlainPositions(source, 1), Span(a)[1], Span(a)[2])
                       = OwnPositions(source, a)

OffsetCorrectnessWitness ==
    /\ Extracted
    /\ l_strip_chars = 0
    /\ OwnTextOnly(source, tags_to_spot)
    /\ Len(document.annotations[1]) >= 1
    /\ \E c \in ClosePositions(source) :
           /\ c < document.annotations[1][1][2]
           /\ CharRun(source, c) # <<>>

C2Markup(p) ==
    <<Open(p), Chr("x"), Open("TIMEX3"), Chr("x"), Close("TIMEX3"), Chr("x"),
      Close(p)>>

C2Case(p) == Extracted /\ source = C2Markup(p) /\ l_strip_chars = 0

(* C2 as stated: for <p>A<b>X</b>B</p> with starting offset 0 the span of b *)
(* is (1, 2) and, when p is a tag of interest, the span of p is (0, 3).     *)
TailTextAccounting ==
    \A p \in RootTags :
        C2Case(p) =>
            /\ SpansOf(annotations, "TIMEX3") = << <<1, 2>> >>
            /\ p \in tags_to_spot => SpansOf(annotations, p) = << <<0, 3>> >>

(* C2 amended: for <p>A<b>X</b>B</p> with starting offset 0 the span of b   *)
(* is (1, 2) and, when p is a tag of interest, the span of p is (0, 1): the *)
(* span of an element covers its own leading direct text only, so the width *)
(* of every recorded span is the length of its element's direct text.       *)
TailTextAccountingAmended ==
    /\ \A p \in RootTags :
           C2Case(p) =>
               /\ SpansOf(annotations, "TIMEX3") = << <<1, 2>> >>
               /\ p \in tags_to_spot => SpansOf(annotations, p) = << <<0, 1>> >>
    /\ (InLoop \/ Extracted) =>
           \A i \in 1..Len(annotations) :
               Span(annotations[i])[2] - Span(annotations[i])[1]
                   = Len(OwnText(source, annotations[i]))

TailTextAccountingWitness ==
    /\ C2Case("EVENT")
    /\ Len(annotations) = 2

(* C3: whenever the extractor enters an element of interest that has no     *)
(* direct text, it does not fail, appends exactly one span with             *)
(* start = end = the cursor, and leaves the cursor unchanged.               *)
ZeroWidthTags ==
    [][LET p == NextTag(source, pos)
       IN  (/\ InLoop
            /\ p # 0
            /\ source[p].k = "open"
            /\ source[p].v \in tags_to_spot
            /\ CharRun(source, p) = <<>>)
           => (/\ outcome' # "raised"
               /\ annotations' = Append(annotations,
                                        <<source[p].v, p,
                                          <<start_offset, start_offset>>>>)
               /\ start_offset' = start_offset)]_vars

(* C4 as stated: every span (start, end) of the returned Document is a      *)
(* valid index pair into the unstripped plain text and                      *)
(* plain_text[start:end] is the element's own text.                         *)
WhitespaceCorrection ==
    outcome = "returned" =>
        LET doc == returned[1]
            plain_text == doc.text[1]
        IN  \A i \in 1..Len(doc.annotations[1]) :
                LET a == doc.annotations[1][i]
                IN  /\ 0 <= Span(a)[1]
                    /\ Span(a)[1] <= Span(a)[2]
                    /\ Span(a)[2] <= Len(plain_text)
                    /\ PySlice(plain_text, Span(a)[1], Span(a)[2])
                           = OwnText(xml, a)

(* C4 amended: with k leading whitespace characters in the plain text,      *)
(* every span (start, end) of the returned Document is shifted by exactly   *)
(* -k: -k <= start <= end <= len(plain_text) - k and                        *)
(* plain_text[start + k : end + k] is the element's own text.               *)
WhitespaceCorrectionAmended ==
    outcome = "returned" =>
        LET doc == returned[1]
            plain_text == doc.text[1]
            k == LeadingWhitespace(plain_text)
        IN  \A i \in 1..Len(doc.annotations[1]) :
                LET a == doc.annotations[1][i]
                IN  /\ -k <= Span(a)[1]
                    /\ Span(a)[1] <= Span(a)[2]
                    /\ Span(a)[2] <= Len(plain_text) - k
                    /\ PySlice(plain_text, Span(a)[1] + k, Span(a)[2] + k)
                           = OwnText(xml, a)
                    /\ PySlice(PlainPositions(xml, 1), Span(a)[1] + k,
                               Span(a)[2] + k) = OwnPositions(xml, a)

WhitespaceCorrectionWitness ==
    /\ outcome = "returned"
    /\ LeadingWhitespace(returned[1].text[1]) >= 1
    /\ \E i \in 1..Len(returned[1].annotations[1]) :
           Span(returned[1].annotations[1][i])[1] < 0

OrderInv ==
    (InLoop \/ Extracted) =>
        [i \in 1..Len(annotations) |-> annotations[i][2]]
            = SpottedBefore(source, pos, tags_to_spot)

AppendOnlyOnStart ==
    InLoop =>
        \/ annotations' = annotations
        \/ /\ NextTag(source, pos) # 0
           /\ source[NextTag(source, pos)].k = "open"
           /\ Len(annotations') = Len(annotations) + 1
           /\ SubSeq(annotations', 1, Len(annotations)) = annotations

(* C5: order preservation.  The list holds the spans of the elements of     *)
(* interest in the order of their opening tags at every nesting depth; a    *)
(* span is appended only on a start event and an appended span is never     *)
(* moved, changed or removed.                                               *)
OrderPreservation ==
    /\ []OrderInv
    /\ [][AppendOnlyOnStart]_vars
    /\ [](Extracted => document.annotations = <<annotations>>)

OrderPreservationWitness ==
    /\ Extracted
    /\ Len(annotations) >= 2
    /\ Len(stack) = 0
    /\ \E i \in 1..Len(annotations) : annotations[i][1] # annotations[1][1]

(* C6: single reference time.  With exactly one reference-time tag a        *)
(* returned Document has dct equal to that tag's value attribute; with no   *)
(* such tag parse raises and no dct is ever synthesized.                    *)
SingleReferenceTime ==
    /\ (outcome = "returned" /\ Len(file.dct_tags) = 1) =>
           returned[1].dct = <<file.dct_tags[1]>>
    /\ Len(file.dct_tags) = 0 =>
           /\ document.dct = Unset
           /\ outcome # "returned"
           /\ pc = "done" => (outcome = "raised" /\ returned = Unset)

SingleReferenceTimeWitness ==
    /\ outcome = "returned"
    /\ Len(file.dct_tags) = 1

Rank(l) ==
    CASE l = "parse_file" -> 1
      [] l = "find_text" -> 2
      [] l = "serialize" -> 3
      [] l = "set_dct" -> 4
      [] l = "set_text" -> 5
      [] l = "call_extractor" -> 6
      [] l = "iter" -> 7
      [] l = "raw_parse" -> 8
      [] l = "push_classes" -> 9
      [] l = "return" -> 10
      [] l = "done" -> 11

OutcomeInv ==
    /\ outcome \in {"running", "returned", "raised"}
    /\ (pc = "done") <=> (outcome # "running")
    /\ outcome = "running" => returned = Unset
    /\ outcome = "returned" =>
           /\ returned = <<document>>
           /\ error = ""
           /\ document.text # Unset
           /\ document.dct # Unset
           /\ document.annotations # Unset
    /\ outcome = "raised" =>
           /\ returned = Unset
           /\ error # ""

NoRetry ==
    /\ Rank(pc') >= Rank(pc)
    /\ (pc' = pc /\ pc # "iter") => UNCHANGED vars
    /\ outcome # "running" => UNCHANGED vars

(* C7: no partial results.  A parse call ends either by returning a         *)
(* Document with text, dct and annotations populated or by raising; when a  *)
(* step fails the error reaches the caller, no Document is returned and no  *)
(* step is run again.                                                       *)
NoPartialResults ==
    /\ []OutcomeInv
    /\ [][NoRetry]_vars

NoPartialResultsWitness ==
    /\ outcome = "raised"
    /\ error = "TypeError"
    /\ document.dct # Unset
    /\ document.text # Unset
    /\ document.annotations = Unset

(* C8: multiple reference times.  With more than one reference-time tag     *)
(* the dct assignment does not raise and dct is the value attribute of the  *)
(* first tag in document order.                                             *)
MultipleReferenceTimes ==
    (/\ Len(file.dct_tags) > 1
     /\ file.dct_tags[1] # NoValue
     /\ text_node # <<>>
     /\ pc \notin {"serialize", "set_dct"}) =>
        /\ document.dct = <<file.dct_tags[1]>>
        /\ outcome = "returned" => returned[1].dct = <<file.dct_tags[1]>>

MultipleReferenceTimesWitness ==
    /\ outcome = "returned"
    /\ Len(file.dct_tags) > 1
    /\ file.dct_tags[1] # file.dct_tags[2]
    /\ file.dct_tags[2] # NoValue

JustCalled == InLoop /\ pos = 1

(* C9 as stated: parse calls the extractor with start_offset equal to       *)
(* len(plain_text) - len(plain_text.lstrip()), the number k >= 0 of leading *)
(* whitespace characters of the plain text.                                 *)
StartingOffset ==
    JustCalled =>
        /\ start_offset = Len(text) - Len(lstrip(text))
        /\ start_offset = LeadingWhitespace(text)
        /\ start_offset >= 0

(* C9 amended: parse calls the extractor with start_offset equal to         *)
(* len(plain_text.lstrip()) - len(plain_text), the non-positive integer -k  *)
(* where k is the number of leading whitespace characters of the plain text.*)
StartingOffsetAmended ==
    JustCalled =>
        /\ start_offset = -LeadingWhitespace(text)
        /\ start_offset <= 0

StartingOffsetWitness ==
    /\ JustCalled
    /\ LeadingWhitespace(text) >= 2
    /\ Len(text) > LeadingWhitespace(text)

CursorInv ==
    (AllHaveText(source) /\ (InLoop \/ Extracted)) =>
        start_offset = l_strip_chars + Consumed(source, pos)

CursorMonotone == (InLoop /\ pc' = "iter") => start_offset' >= start_offset

TagIndependence ==
    (AllHaveText(source) /\ Extracted) =>
        LET alone == [t \in AllTags |->
                         SpansOf(Extract(source, 1, <<>>, l_strip_chars, <<>>,
                                         {t}).annotations, t)]
        IN  /\ Extract(source, 1, <<>>, l_strip_chars, <<>>, tags_to_spot)
                   = [err |-> "", annotations |-> annotations]
            /\ \A T \in SUBSET AllTags :
                   LET r == Extract(source, 1, <<>>, l_strip_chars, <<>>, T)
                   IN  \A t \in T : SpansOf(r.annotations, t) = alone[t]

RootTail(src) == Len(src) - RootClose(src)

(* C10 as stated: on a stream in which every element has direct text the    *)
(* cursor is start_offset plus the direct texts of the elements opened so   *)
(* far plus the tails of the elements closed so far; it never decreases,    *)
(* the spans of a tag do not depend on the other tags of interest, and      *)
(* after the last event it is start_offset + len(plain_text).               *)
CursorAccounting ==
    /\ []CursorInv
    /\ [][CursorMonotone]_vars
    /\ []TagIndependence
    /\ []((AllHaveText(source) /\ AfterLastEvent) =>
              start_offset = l_strip_chars + Len(PlainText(source)))

(* C10 amended: as C10, but after the last event the cursor is              *)
(* start_offset + len(plain_text) minus the number of characters that       *)
(* follow the closing tag of the document element, which are part of the    *)
(* plain text and are never counted.                                        *)
CursorAccountingAmended ==
    /\ []CursorInv
    /\ [][CursorMonotone]_vars
    /\ []TagIndependence
    /\ []((AllHaveText(source) /\ AfterLastEvent) =>
              start_offset = l_strip_chars + Len(PlainText(source))
                                 - RootTail(source))

CursorAccountingWitness ==
    /\ AllHaveText(source)
    /\ Extracted
    /\ RootTail(source) > 0
    /\ Cardinality(OpenPositions(source)) >= 2
    /\ \E p \in OpenPositions(source) : source[p].v \notin tags_to_spot /\ p > 1

====
